---- MODULE Spec2Model ----
(***************************************************************************)
(* Model of the venue recommender notebook                                 *)
(* (tutorial/jupyter/notebooks/5.venue-recommender.ipynb):                 *)
(*   geturl, score, html_template, recommender, recommender_api.           *)
(*                                                                         *)
(* Python values: a str is a TLA+ string; a nullable text column / value   *)
(* is None (the empty tuple) or Str(s) (a one-element tuple), so that the  *)
(* empty string '' and None stay different values, as they are in Python   *)
(* and in Cassandra.  A float is an integer number of hundredths.  A       *)
(* rendered text is a sequence of string pieces (its concatenation).       *)
(*                                                                         *)
(* A request runs in steps delimited by its I/O on shared resources: the   *)
(* SELECT on lbsn.kmeans_topvenues, the call to the wikipedia search, the  *)
(* UPDATE of lbsn.kmeans_topvenues.  Everything between two such points is *)
(* local computation and belongs to the step that precedes it.             *)
(***************************************************************************)
EXTENDS Integers, Sequences, FiniteSets, TLC

\* ------------------------------------------------------------------ bounds
\* number of request slots that may be in flight at the same time
NumProc == 2
\* total number of requests started in one behaviour
MaxRequests == 3

Procs == 1..NumProc

\* ------------------------------------------------------------ Python values
None == <<>>
Str(s) == <<s>>

\* Python truthiness of an optional str: None and '' are falsy
Truthy(v) == v # None /\ v[1] # ""

\* ------------------------------------------------------------- the database
\* columns of lbsn.kmeans_topvenues, in the order of the row tuples
Keys == <<"cid", "count", "lat", "lon", "name", "url">>

KeyIndex(k) == CHOOSE i \in DOMAIN Keys : Keys[i] = k

\* the fitted k-means model (the unpickled ml): cluster centers, in hundredths
\* of a degree; cluster ids are 0-based positions
cluster_centers == << <<-700, 400>>, <<400, 400>>, <<400, -700>> >>

Clusters == 0..(Len(cluster_centers) - 1)

\* the rows an offline job seeded, without their url: cluster 2 is an empty
\* partition
SeedRows(c) ==
  CASE c = 0 -> << <<0, 133, 407, -740, "Battery Park", None>> >>
    [] c = 1 -> << <<1, 57, 415, -749, "Whitney Museum of Art", None>> >>
    [] OTHER -> << >>

WikiUrl(name) ==
  CASE name = "Battery Park" -> "https://en.wikipedia.org/wiki/Battery_Park"
    [] OTHER -> "h"

WithUrl(row, u) == [row EXCEPT ![KeyIndex("url")] = u]

\* the tables the notebook may start on: every seeded row with its url still
\* null, or already filled by an earlier run
SeedTables ==
  {[c \in Clusters |->
      [i \in DOMAIN SeedRows(c) |->
         WithUrl(SeedRows(c)[i],
                 IF c \in S THEN Str(WikiUrl(SeedRows(c)[i][KeyIndex("name")]))
                            ELSE None)]] : S \in SUBSET Clusters}

\* the SELECT without its where clause: the first n rows of the whole table
Select_NoWhere(tbl, cl, n) ==
  LET full == {c \in DOMAIN tbl : tbl[c] # << >>}
  IN  IF full = {} THEN << >>
      ELSE SubSeq(tbl[CHOOSE c \in full : \A c2 \in full : c <= c2], 1, n)

\* session.execute(cql_prepared.bind((cl, n))):
\* SELECT * from lbsn.kmeans_topvenues where cid = ? LIMIT ?
Select(tbl, cl, n) ==
  IF cl \in DOMAIN tbl
    THEN SubSeq(tbl[cl], 1, IF Len(tbl[cl]) < n THEN Len(tbl[cl]) ELSE n)
    ELSE << >>

\* str.format of a value into the CQL text: None prints as the word None
CqlText(v) == IF v = None THEN "None" ELSE v[1]

\* UPDATE lbsn.kmeans_topvenues SET url = '<text>' WHERE cid = <cid>
\* (cid is the whole primary key; the row exists, it was just read)
Update(tbl, cid, text) ==
  [tbl EXCEPT ![cid] = [i \in DOMAIN @ |-> WithUrl(@[i], Str(text))]]

\* -------------------------------------------------------------- float(str)
Digits == {"0", "1", "2", "3", "4", "5", "6", "7", "8", "9"}

DigitVal(c) ==
  CASE c = "0" -> 0 [] c = "1" -> 1 [] c = "2" -> 2 [] c = "3" -> 3
    [] c = "4" -> 4 [] c = "5" -> 5 [] c = "6" -> 6 [] c = "7" -> 7
    [] c = "8" -> 8 [] c = "9" -> 9

RECURSIVE DigitsVal(_)
DigitsVal(q) ==
  IF q = << >> THEN 0
  ELSE 10 * DigitsVal(SubSeq(q, 1, Len(q) - 1)) + DigitVal(q[Len(q)])

\* float(s) on decimal notation: an optional sign, digits with at most one
\* point, at least one digit.  The result is ok = FALSE (ValueError) or the
\* value in hundredths (digits after the second decimal are dropped).
float(s) ==
  LET signed == s # << >> /\ s[1] \in {"-", "+"}
      body   == IF signed THEN Tail(s) ELSE s
      dots   == {i \in DOMAIN body : body[i] = "."}
      dot    == IF dots = {} THEN Len(body) + 1 ELSE CHOOSE i \in dots : TRUE
      int    == SubSeq(body, 1, dot - 1)
      frac   == SubSeq(body, dot + 1, Len(body))
      frac2  == SubSeq(frac \o <<"0", "0">>, 1, 2)
      ok     == /\ Cardinality(dots) <= 1
                /\ \A i \in DOMAIN int : int[i] \in Digits
                /\ \A i \in DOMAIN frac : frac[i] \in Digits
                /\ Len(int) + Len(frac) >= 1
      mag    == 100 * DigitsVal(int) + DigitsVal(frac2)
  IN  IF ok THEN [ok |-> TRUE, val |-> IF signed /\ s[1] = "-" THEN 0 - mag ELSE mag]
      ELSE [ok |-> FALSE, val |-> 0]

\* ------------------------------------------------------------- ml.predict
Dist2(p, q) == (p[1] - q[1]) * (p[1] - q[1]) + (p[2] - q[2]) * (p[2] - q[2])

\* ml.predict([[lon, lat]])[0]: the nearest center, the first one on a tie
predict(lon, lat) ==
  CHOOSE c \in Clusters :
    \A c2 \in Clusters :
      \/ Dist2(<<lon, lat>>, cluster_centers[c + 1]) <
           Dist2(<<lon, lat>>, cluster_centers[c2 + 1])
      \/ /\ Dist2(<<lon, lat>>, cluster_centers[c + 1]) =
              Dist2(<<lon, lat>>, cluster_centers[c2 + 1])
         /\ c <= c2

\* ------------------------------------------------------------------ geturl
\* what the wikipedia opensearch call may do for a search term: fail in
\* transport, answer something that is no opensearch JSON, answer without a
\* hit, answer with one hit (limit=1)
Responses(name) ==
  { [kind |-> "error", body |-> << >>],
    [kind |-> "ok", body |-> << >>],
    [kind |-> "ok", body |-> <<name, << >>, << >>, << >> >>],
    [kind |-> "ok", body |-> <<name, <<name>>, <<"">>, <<WikiUrl(name)>> >>] }

\* the exception the try block of geturl raises on a response, "" if none:
\* urlopen fails, json.loads fails, or [3][0] finds no such element
TryRaises(resp) ==
  IF resp.kind # "ok" THEN "URLError"
  ELSE IF Len(resp.body) = 0 THEN "ValueError"
  ELSE IF Len(resp.body) < 4 THEN "IndexError"
  ELSE IF Len(resp.body[4]) < 1 THEN "IndexError"
  ELSE ""

\* geturl written with "except urllib.error.URLError: pass" in place of the
\* finally clause: what json.loads or [3][0] raise reaches the caller
geturl_ExceptURLError(s, resp) ==
  [wiki_url |-> IF TryRaises(resp) # "" THEN "" ELSE resp.body[4][1],
   raised   |-> TryRaises(resp) # "",
   err      |-> IF TryRaises(resp) = "URLError" THEN "" ELSE TryRaises(resp)]

\* geturl(s) given the response of urlopen: wiki_url is '' until the last
\* line of the try block assigns json...[3][0]; the return in the finally
\* clause discards whatever the try block raised, so err is always ""
geturl(s, resp) ==
  [wiki_url |-> IF TryRaises(resp) # "" THEN "" ELSE resp.body[4][1],
   raised   |-> TryRaises(resp) # "",
   err      |-> ""]

\* ------------------------------------------------------------------- score
\* dict(zip(keys, list(rows[0])))
DictZip(keys, row) ==
  [k \in {keys[i] : i \in DOMAIN keys} |->
     row[CHOOSE i \in DOMAIN keys : keys[i] = k]]

\* the test written as "if not d['url']"
NeedsLink_Falsy(dd) == ~Truthy(dd.url)

\* if d['url'] == None
NeedsLink(dd) == dd.url = None

\* the SELECT half of score, on the table as it is now: the exception it
\* raises (rows[0] on an empty result is an IndexError) or its rows and d
score_select(tbl, lon, lat) ==
  LET cl == predict(lon, lat)
      rs == Select(tbl, cl, 1)
  IN  IF rs = << >>
        THEN [err |-> "IndexError", rows |-> rs, d |-> [k \in {} |-> None]]
        ELSE [err |-> "", rows |-> rs, d |-> DictZip(Keys, rs[1])]

\* --------------------------------------------------------------- rendering
RECURSIVE Flatten(_)
Flatten(ss) == IF ss = << >> THEN << >> ELSE Head(ss) \o Flatten(Tail(ss))

\* link testing "url is not None" in place of the truth value of url
link_NotNone(url, text) ==
  IF url # None THEN <<"<a href=\"", url[1], "\">", text, "</a>">>
  ELSE <<text>>

\* link(url, text) of html_template
link(url, text) ==
  IF Truthy(url) THEN <<"<a href=\"", url[1], "\">", text, "</a>">>
  ELSE <<text>>

\* tmpl = 'What about visiting the {url_html}?'
tmpl == <<[lit |-> "What about visiting the "], [field |-> "url_html"],
          [lit |-> "?"]>>

\* tmpl.format(**d): one pass over the template, every replacement field
\* replaced by the value of that key, the value itself not scanned again
Format(t, dd) ==
  Flatten([i \in DOMAIN t |->
             IF "field" \in DOMAIN t[i] THEN dd[t[i].field] ELSE <<t[i].lit>>])

\* html_template(d): d as it leaves it (with url_html) and the output
html_template(dd) ==
  LET d2 == ("url_html" :> link(dd.url, dd.name)) @@ dd
  IN  [d |-> d2, output |-> Format(tmpl, d2)]

JsonValue(k, v) ==
  CASE k \in {"cid", "count", "lat", "lon"} -> <<ToString(v)>>
    [] k = "name" -> <<"\"", v, "\"">>
    [] k = "url" -> IF v = None THEN <<"null">> ELSE <<"\"", v[1], "\"">>

\* json.dumps(d) of the dict score returned (keys in column order)
json_dumps(dd) ==
  <<"{">> \o
  Flatten([i \in DOMAIN Keys |->
             (IF i = 1 THEN << >> ELSE <<", ">>) \o
             <<"\"", Keys[i], "\": ">> \o JsonValue(Keys[i], dd[Keys[i]])]) \o
  <<"}">>

\* the conditional written the other way round:
\* json.dumps(d) if format=='json' else html_template(d)
render_JsonElseHtml(dd, format) ==
  IF format = "json" THEN [d |-> dd, output |-> json_dumps(dd)]
  ELSE html_template(dd)

\* output = html_template(d) if format=='html'else json.dumps(d)
render(dd, format) ==
  IF format = "html" THEN html_template(dd)
  ELSE [d |-> dd, output |-> json_dumps(dd)]

\* what recommender returns: the output, wrapped in IPython's HTML(...) when
\* notebook is set
Returned(output, notebook) == [HTML |-> notebook, text |-> output]

VARIABLES
  kmeans_topvenues,  \* the table: cid -> sequence of row tuples
  wiki_calls,        \* per cluster, searches sent to wikipedia so far
  updates,           \* per cluster, UPDATE statements executed so far
  started,           \* requests started so far
  pc,                \* per request slot: idle, geturl, cache, done, failed
  view_args,         \* the <lon>,<lat> path strings of an HTTP request
  args,              \* recommender's arguments lon, lat, format, notebook
  rows,              \* score's local rows
  d,                 \* score's / recommender's local d
  out,               \* the value the request returned
  err,               \* the exception that ended the request
  trace              \* the pipeline stages the request went through

vars == <<kmeans_topvenues, wiki_calls, updates, started, pc, view_args, args,
          rows, d, out, err, trace>>

shared == <<kmeans_topvenues, wiki_calls, updates>>
locals == <<view_args, args, rows, d, out, err, trace>>

NoArgs == [lon |-> 0, lat |-> 0, format |-> "", notebook |-> FALSE]
NoDict == [k \in {} |-> None]
NoOut == [HTML |-> FALSE, text |-> << >>]

Init ==
  /\ kmeans_topvenues \in SeedTables
  /\ wiki_calls = [c \in Clusters |-> 0]
  /\ updates = [c \in Clusters |-> 0]
  /\ started = 0
  /\ pc = [r \in Procs |-> "idle"]
  /\ view_args = [r \in Procs |-> <<>>]
  /\ args = [r \in Procs |-> NoArgs]
  /\ rows = [r \in Procs |-> <<>>]
  /\ d = [r \in Procs |-> NoDict]
  /\ out = [r \in Procs |-> NoOut]
  /\ err = [r \in Procs |-> ""]
  /\ trace = [r \in Procs |-> <<>>]

\* -------------------------------------------------------------- the inputs
\* the path strings a client may send (Flask's converter takes any non-empty
\* text without a slash), as sequences of characters
CoordStrings == { <<"-", "7">>, <<"4", ".">>, <<"-">>, <<"4", "x">> }

\* the floats a notebook cell may pass, in hundredths
CoordFloats == {-700, 400}

Formats == {"json", "html", "xml"}

\* --------------------------------------------------------------- the steps
\* recommender(lon, lat, format, notebook) up to and including the SELECT of
\* score; when the row has its url, through to the return
Enter(r, va, a, pre) ==
  LET s == score_select(kmeans_topvenues, a.lon, a.lat)
      t == pre \o <<"predict", "select">>
      o == render(s.d, a.format)
  IN  /\ view_args' = [view_args EXCEPT ![r] = va]
      /\ args' = [args EXCEPT ![r] = a]
      /\ rows' = [rows EXCEPT ![r] = s.rows]
      /\ IF s.err # ""
           THEN /\ pc' = [pc EXCEPT ![r] = "failed"]
                /\ err' = [err EXCEPT ![r] = s.err]
                /\ trace' = [trace EXCEPT ![r] = t]
                /\ UNCHANGED <<d, out>>
         ELSE IF NeedsLink(s.d)
           THEN /\ pc' = [pc EXCEPT ![r] = "geturl"]
                /\ d' = [d EXCEPT ![r] = s.d]
                /\ trace' = [trace EXCEPT ![r] = t]
                /\ UNCHANGED <<out, err>>
         ELSE   /\ pc' = [pc EXCEPT ![r] = "done"]
                /\ d' = [d EXCEPT ![r] = o.d]
                /\ out' = [out EXCEPT ![r] = Returned(o.output, a.notebook)]
                /\ trace' = [trace EXCEPT ![r] = t \o <<"render">>]
                /\ UNCHANGED err
      /\ started' = started + 1
      /\ UNCHANGED shared

\* a notebook cell calls recommender(lon, lat, format, notebook)
recommender(r, lon, lat, format, notebook) ==
  /\ pc[r] = "idle"
  /\ started < MaxRequests
  /\ Enter(r, << >>,
           [lon |-> lon, lat |-> lat, format |-> format, notebook |-> notebook],
           << >>)

\* the route passing lat on without float(): recommender(float(lon), lat)
recommender_api_LonOnly(r, lon, lat) ==
  /\ pc[r] = "idle"
  /\ started < MaxRequests
  /\ IF float(lon).ok
       THEN Enter(r, <<lon, lat>>,
                  [lon |-> float(lon).val, lat |-> float(lat).val,
                   format |-> "json", notebook |-> FALSE],
                  <<"float">>)
       ELSE /\ pc' = [pc EXCEPT ![r] = "failed"]
            /\ err' = [err EXCEPT ![r] = "ValueError"]
            /\ view_args' = [view_args EXCEPT ![r] = <<lon, lat>>]
            /\ trace' = [trace EXCEPT ![r] = <<"float">>]
            /\ started' = started + 1
            /\ UNCHANGED <<shared, args, rows, d, out>>

\* GET /venues/recommender/<lon>,<lat>:
\* recommender(float(lon), float(lat))
recommender_api(r, lon, lat) ==
  /\ pc[r] = "idle"
  /\ started < MaxRequests
  /\ IF float(lon).ok /\ float(lat).ok
       THEN Enter(r, <<lon, lat>>,
                  [lon |-> float(lon).val, lat |-> float(lat).val,
                   format |-> "json", notebook |-> FALSE],
                  <<"float">>)
       ELSE /\ pc' = [pc EXCEPT ![r] = "failed"]
            /\ err' = [err EXCEPT ![r] = "ValueError"]
            /\ view_args' = [view_args EXCEPT ![r] = <<lon, lat>>]
            /\ trace' = [trace EXCEPT ![r] = <<"float">>]
            /\ started' = started + 1
            /\ UNCHANGED <<shared, args, rows, d, out>>

\* d['url'] = geturl(d['name']): the search is sent, wikipedia answers
GetUrl(r) ==
  /\ pc[r] = "geturl"
  /\ \E resp \in Responses(d[r].name) :
       LET g == geturl(d[r].name, resp)
           t == <<"geturl">> \o (IF g.raised THEN <<"raised">> ELSE << >>)
       IN  /\ trace' = [trace EXCEPT ![r] = @ \o t]
           /\ IF g.err # ""
                THEN /\ pc' = [pc EXCEPT ![r] = "failed"]
                     /\ err' = [err EXCEPT ![r] = g.err]
                     /\ UNCHANGED d
                ELSE /\ pc' = [pc EXCEPT ![r] = "cache"]
                     /\ d' = [d EXCEPT ![r] = [@ EXCEPT !["url"] = Str(g.wiki_url)]]
                     /\ UNCHANGED err
  /\ wiki_calls' = [wiki_calls EXCEPT ![d[r].cid] = @ + 1]
  /\ UNCHANGED <<kmeans_topvenues, updates, started, view_args, args, rows, out>>

\* the cache write made only for a link that was found
CacheWrite_OnlyHits(tbl, dd) ==
  IF Truthy(dd.url) THEN Update(tbl, dd.cid, CqlText(dd.url)) ELSE tbl

\* the cache write of score: UPDATE ... SET url = '{}' WHERE cid = {}
CacheWrite(tbl, dd) == Update(tbl, dd.cid, CqlText(dd.url))

\* the UPDATE that caches d['url'], and from there to recommender's return
Cache(r) ==
  LET o == render(d[r], args[r].format)
  IN  /\ pc[r] = "cache"
      /\ kmeans_topvenues' = CacheWrite(kmeans_topvenues, d[r])
      /\ updates' = [updates EXCEPT ![d[r].cid] = @ + 1]
      /\ rows' = [rows EXCEPT ![r] = << >>]
      /\ d' = [d EXCEPT ![r] = o.d]
      /\ out' = [out EXCEPT ![r] = Returned(o.output, args[r].notebook)]
      /\ pc' = [pc EXCEPT ![r] = "done"]
      /\ trace' = [trace EXCEPT ![r] = @ \o <<"update", "render">>]
      /\ UNCHANGED <<wiki_calls, started, view_args, args, err>>

\* the caller has the answer (or the error); the slot is free again
Respond(r) ==
  /\ pc[r] \in {"done", "failed"}
  /\ pc' = [pc EXCEPT ![r] = "idle"]
  /\ view_args' = [view_args EXCEPT ![r] = << >>]
  /\ args' = [args EXCEPT ![r] = NoArgs]
  /\ rows' = [rows EXCEPT ![r] = << >>]
  /\ d' = [d EXCEPT ![r] = NoDict]
  /\ out' = [out EXCEPT ![r] = NoOut]
  /\ err' = [err EXCEPT ![r] = ""]
  /\ trace' = [trace EXCEPT ![r] = << >>]
  /\ UNCHANGED <<shared, started>>

\* The HTTP service (app.run()): requests to the one route, which may overlap
\* when the server runs threaded or as several workers on the same keyspace.
Next ==
  \/ \E r \in Procs, lon \in CoordStrings, lat \in CoordStrings :
       recommender_api(r, lon, lat)
  \/ \E r \in Procs : GetUrl(r)
  \/ \E r \in Procs : Cache(r)
  \/ \E r \in Procs : Respond(r)

Spec == Init /\ [][Next]_vars

\* One request at a time (the notebook's cells, or a single-threaded server):
\* a call starts only when no other is in flight.
Quiet == \A r \in Procs : pc[r] = "idle"

NextSeq ==
  \/ /\ Quiet
     /\ \E r \in Procs, lon \in CoordFloats, lat \in CoordFloats,
           format \in Formats, notebook \in BOOLEAN :
          recommender(r, lon, lat, format, notebook)
  \/ /\ Quiet
     /\ \E r \in Procs, lon \in CoordStrings, lat \in CoordStrings :
          recommender_api(r, lon, lat)
  \/ \E r \in Procs : GetUrl(r)
  \/ \E r \in Procs : Cache(r)
  \/ \E r \in Procs : Respond(r)

SpecSeq == Init /\ [][NextSeq]_vars

\* ============================================================== properties
HasRow(c) == kmeans_topvenues[c] # << >>

\* the url column of the row of cluster c
StoredUrl(c) == kmeans_topvenues[c][1][KeyIndex("url")]

Has(tr, x) == \E i \in DOMAIN tr : tr[i] = x

\* the requests that looked cluster c up at wikipedia and have returned
Fetchers(c) ==
  {r \in Procs : pc[r] = "done" /\ d[r].cid = c /\ Has(trace[r], "geturl")}

\* C1: a request that finds the link of its row set (not None) makes no
\* wikipedia call and no UPDATE, leaves the table as it is, and returns the
\* row it read, field for field; this is so for every such request, so
\* repeating it changes nothing.
C1_LinkSetIsNoOp ==
  [][\A r \in Procs :
       (pc[r] = "idle" /\ rows'[r] # << >> /\ rows'[r][1][6] # None) =>
         /\ pc'[r] = "done"
         /\ err'[r] = ""
         /\ UNCHANGED <<kmeans_topvenues, wiki_calls, updates>>
         /\ ~Has(trace'[r], "geturl") /\ ~Has(trace'[r], "update")
         /\ rows'[r] = kmeans_topvenues[rows'[r][1][1]]
         /\ d'[r].cid = rows'[r][1][1] /\ d'[r].count = rows'[r][1][2]
         /\ d'[r].lat = rows'[r][1][3] /\ d'[r].lon = rows'[r][1][4]
         /\ d'[r].name = rows'[r][1][5] /\ d'[r].url = rows'[r][1][6]]_vars

C1_Witness ==
  \E r \in Procs :
    /\ pc[r] = "done" /\ rows[r] # << >>
    /\ d[r].url = StoredUrl(d[r].cid) /\ d[r].url # None
    /\ started >= 2

\* C2 as stated: once the stored link of a cluster is present it never
\* changes again, whatever the interleaving.
C2_OnceSetNeverChanges ==
  [][\A c \in Clusters :
       (HasRow(c) /\ StoredUrl(c) # None) => StoredUrl(c)' = StoredUrl(c)]_vars

\* C2 amended: a present stored link is never cleared back to None, and it is
\* overwritten only by the UPDATE of a request that had read the row while its
\* link was still None (a request overlapping the first access).
C2_NeverClearedOnlyRacersOverwrite ==
  [][\A c \in Clusters :
       (HasRow(c) /\ StoredUrl(c) # None) =>
         /\ StoredUrl(c)' # None
         /\ StoredUrl(c)' # StoredUrl(c) =>
              \E r \in Procs :
                /\ pc[r] = "cache" /\ pc'[r] = "done" /\ d[r].cid = c
                /\ rows[r][1][6] = None]_vars

C2_Witness ==
  \E c \in Clusters :
    /\ HasRow(c) /\ StoredUrl(c) # None /\ updates[c] >= 2
    /\ \E r \in Fetchers(c) : d[r].url # StoredUrl(c)

\* C3 as stated: when the requests that looked a cluster up have all
\* returned, they all returned the same link and the stored link equals it.
C3_WritesConverge ==
  \A c \in Clusters :
    (\A r \in Procs : pc[r] \in {"geturl", "cache"} => d[r].cid # c) =>
      \A r \in Fetchers(c) : d[r].url = StoredUrl(c)

\* C3 amended: every UPDATE stores the link its own request returns, so when
\* the overlapping requests have all returned the stored link is the one
\* returned by one of them (the last to write); the others agree with it only
\* when their wikipedia calls gave the same result.
C3_LastWriteWins ==
  /\ [](\A c \in Clusters :
          (Cardinality(Fetchers(c)) = updates[c] /\ updates[c] >= 1) =>
            \E r \in Fetchers(c) : StoredUrl(c) = d[r].url)
  /\ [][\A r \in Procs :
          (pc[r] = "cache" /\ pc'[r] = "done") =>
            /\ StoredUrl(d[r].cid)' = d'[r].url
            /\ d'[r].url = d[r].url]_vars

C3_Witness ==
  \E c \in Clusters :
    /\ Cardinality(Fetchers(c)) = updates[c] /\ updates[c] >= 2
    /\ \E r1, r2 \in Fetchers(c) :
         d[r1].url # d[r2].url /\ StoredUrl(c) = d[r1].url

\* C4: with one request at a time, wikipedia is searched at most once and the
\* link is written at most once per cluster: a request is sent to wikipedia
\* only while nothing was searched or written for its cluster before, and once
\* a request for the cluster has returned no search and no write follows.
C4_AtMostOncePerCluster ==
  /\ \A c \in Clusters : wiki_calls[c] <= 1 /\ updates[c] <= 1
  /\ \A r \in Procs :
       /\ pc[r] = "geturl" => wiki_calls[d[r].cid] = 0 /\ updates[d[r].cid] = 0
       /\ pc[r] = "cache" => wiki_calls[d[r].cid] = 1 /\ updates[d[r].cid] = 0

C4_Witness ==
  \E r \in Procs :
    /\ pc[r] = "done" /\ ~Has(trace[r], "geturl")
    /\ wiki_calls[d[r].cid] = 1 /\ updates[d[r].cid] = 1

\* C5: a wikipedia search that raised (transport error, no JSON, no hit) never
\* fails the request: the request goes on with the link '' and, once it has
\* returned, has no error and a rendered text.
C5_LookupFailureRecovered ==
  \A r \in Procs :
    Has(trace[r], "raised") =>
      /\ pc[r] \in {"cache", "done"}
      /\ err[r] = ""
      /\ d[r].url = Str("")
      /\ pc[r] = "done" => out[r].text # << >>

C5_Witness ==
  \E r \in Procs :
    /\ pc[r] = "done" /\ Has(trace[r], "raised")
    /\ err[r] = "" /\ out[r].text # << >>

\* C6 as stated: a request with a format other than json and html, on a
\* cluster that has a venue row, ends in an error and returns no text.
C6_UnknownFormatFails ==
  \A r \in Procs :
    (pc[r] = "done" /\ args[r].format \notin {"json", "html"}) =>
      err[r] # "" /\ out[r].text = << >>

\* C6 amended: a format other than html never fails the rendering: the
\* request returns without error, and its text is the json text of the record
\* (so "xml" renders exactly as "json" does).
C6_UnknownFormatRendersJson ==
  \A r \in Procs :
    (args[r].format \notin {"", "html"} /\ pc[r] \notin {"idle", "failed"}) =>
      /\ err[r] = ""
      /\ pc[r] = "done" =>
           /\ out[r].text = json_dumps(d[r])
           /\ out[r].text[1] = "{"
           /\ DOMAIN d[r] = {Keys[i] : i \in DOMAIN Keys}

C6_Witness ==
  \E r \in Procs :
    /\ pc[r] = "done" /\ args[r].format = "xml"
    /\ out[r].text = json_dumps(d[r])

\* C7: a request whose cluster has no row in the table fails with the
\* IndexError of rows[0] right after its one SELECT: no wikipedia call, no
\* UPDATE, nothing rendered, and the step leaves table and counters unchanged.
C7_NotFoundTerminal ==
  /\ [](\A r \in Procs :
          (args[r].format # "" /\
           ~HasRow(predict(args[r].lon, args[r].lat))) =>
            /\ pc[r] = "failed" /\ err[r] = "IndexError"
            /\ trace[r][Len(trace[r])] = "select"
            /\ Cardinality({i \in DOMAIN trace[r] : trace[r][i] = "select"}) = 1
            /\ ~Has(trace[r], "geturl") /\ ~Has(trace[r], "update")
            /\ ~Has(trace[r], "render")
            /\ out[r] = NoOut
            /\ wiki_calls[predict(args[r].lon, args[r].lat)] = 0
            /\ updates[predict(args[r].lon, args[r].lat)] = 0)
  /\ [][\A r \in Procs :
          (err[r] = "" /\ err'[r] = "IndexError") =>
            UNCHANGED <<kmeans_topvenues, wiki_calls, updates>>]_vars

C7_Witness ==
  \E r \in Procs :
    /\ pc[r] = "failed" /\ err[r] = "IndexError"
    /\ ~HasRow(predict(args[r].lon, args[r].lat))

\* C8: the html rendering of the record score returned is exactly
\* "What about visiting the X?" when its link is None or '', and exactly
\* "What about visiting the <a href="L">X</a>?" when its link is L.
C8_NarrativeRendering ==
  \A r \in Procs :
    (pc[r] = "done" /\ args[r].format = "html" /\ d[r].name # "") =>
      out[r].text =
           IF d[r].url = None \/ d[r].url = Str("")
             THEN <<"What about visiting the ", d[r].name, "?">>
             ELSE <<"What about visiting the ", "<a href=\"", d[r].url[1],
                    "\">", d[r].name, "</a>", "?">>

C8_Witness ==
  \E r \in Procs :
    /\ pc[r] = "done" /\ args[r].format = "html"
    /\ out[r].text =
         <<"What about visiting the ", "<a href=\"",
           "https://en.wikipedia.org/wiki/Battery_Park", "\">", "Battery Park",
           "</a>", "?">>

\* the path strings of CoordStrings that Python's float() accepts
ValidCoordStrings == { <<"-", "7">>, <<"4", ".">> }

IsPrefix(p, t) == Len(p) <= Len(t) /\ SubSeq(t, 1, Len(p)) = p

\* the stage sequences of a whole pipeline run entered from the route
ApiRuns ==
  { <<"float", "predict", "select", "render">>,
    <<"float", "predict", "select", "geturl", "update", "render">>,
    <<"float", "predict", "select", "geturl", "raised", "update", "render">> }

\* C9: an HTTP request whose lon or lat is not a float fails with ValueError
\* after the parse and nothing else: no predict, no SELECT, no wikipedia call,
\* no UPDATE.  When both parse, the stages run once each in the order
\* predict, select, (geturl, update,) render, and the rendering is the json
\* one.
C9_ParseBeforePipeline ==
  /\ [](\A r \in Procs :
          view_args[r] # << >> =>
            IF view_args[r][1] \in ValidCoordStrings /\
               view_args[r][2] \in ValidCoordStrings
              THEN /\ err[r] # "ValueError"
                   /\ args[r].format = "json"
                   /\ \E t \in ApiRuns : IsPrefix(trace[r], t)
                   /\ IsPrefix(<<"float", "predict", "select">>, trace[r])
                   /\ pc[r] = "done" =>
                        /\ trace[r] \in ApiRuns
                        /\ out[r] = [HTML |-> FALSE, text |-> json_dumps(d[r])]
              ELSE /\ pc[r] = "failed" /\ err[r] = "ValueError"
                   /\ trace[r] = <<"float">>
                   /\ args[r] = NoArgs /\ rows[r] = << >> /\ d[r] = NoDict
                   /\ out[r] = NoOut)
  /\ [][\A r \in Procs :
          (err[r] = "" /\ err'[r] = "ValueError") =>
            UNCHANGED <<kmeans_topvenues, wiki_calls, updates>>]_vars

C9_Witness ==
  \E r1, r2 \in Procs :
    /\ view_args[r1] # << >>
    /\ view_args[r1][1] \in ValidCoordStrings
    /\ view_args[r1][2] \notin ValidCoordStrings
    /\ err[r1] = "ValueError"
    /\ view_args[r2] # << >> /\ pc[r2] = "done"
    /\ trace[r2] = <<"float", "predict", "select", "geturl", "update", "render">>

\* C10: with one request at a time, score writes whatever geturl returned,
\* the '' of a failed lookup included: a request that has returned leaves the
\* stored link of its cluster set (not None), equal to the link it returned,
\* and a stored '' is never searched again.
C10_FailedLookupCached ==
  /\ \A r \in Procs :
       pc[r] = "done" =>
         /\ StoredUrl(d[r].cid) # None
         /\ StoredUrl(d[r].cid) = d[r].url
  /\ \A c \in Clusters :
       (HasRow(c) /\ StoredUrl(c) = Str("")) =>
         /\ wiki_calls[c] = 1 /\ updates[c] = 1
         /\ \A r \in Procs : pc[r] \in {"geturl", "cache"} => d[r].cid # c

C10_Witness ==
  \E r \in Procs :
    /\ pc[r] = "done" /\ ~Has(trace[r], "geturl")
    /\ d[r].url = Str("") /\ StoredUrl(d[r].cid) = Str("")
    /\ wiki_calls[d[r].cid] = 1

====
